---- MODULE Spec2Model ----
(***************************************************************************)
(* Model of eso_scraper.py: the Crown Store sweep (scrape_free_items), the *)
(* detail-page classifier (extract_item_details), the notifier             *)
(* (send_item_to_discord) and the posted-items ledger.                     *)
(*                                                                         *)
(* Text is modelled as a sequence of one-character strings, so that        *)
(* strip(), lower(), len() and substring tests are computed.  Addresses    *)
(* are sequences of segments (host parts, path parts), so that             *)
(* startswith() and `in` are computed on them.  None is the empty          *)
(* sequence, a value x that may be None is <<x>>.                          *)
(***************************************************************************)
EXTENDS Integers, Sequences, FiniteSets, TLC

\* ------------------------------------------------------------------ bounds
MaxRuns == 2
MaxItemUrls == 2
MaxListingMarkers == 2
MaxDetailMarkers == 2
MaxImages == 2
MaxHeadings == 2

\* ------------------------------------------------------- program constants
MinImageSide == 100
MinNameLen == 2
Status204 == 204

\* ------------------------------------------------------------ text helpers
None == << >>

Some(x) == << x >>

Upper == <<"A","B","C","D","E","F","G","H","I","J","K","L","M",
           "N","O","P","Q","R","S","T","U","V","W","X","Y","Z">>

LowerLetters == <<"a","b","c","d","e","f","g","h","i","j","k","l","m",
                  "n","o","p","q","r","s","t","u","v","w","x","y","z">>

Whitespace == {" ", "\n", "\t"}

\* str.lower() on one character
LowerChar(c) ==
    IF \E i \in 1..26 : Upper[i] = c
    THEN LowerLetters[CHOOSE i \in 1..26 : Upper[i] = c]
    ELSE c

\* str.lower()
Lower(s) == [i \in 1..Len(s) |-> LowerChar(s[i])]

\* `sub in s` on sequences
Contains(s, sub) ==
    \E i \in 1..(Len(s) - Len(sub) + 1) : SubSeq(s, i, i + Len(sub) - 1) = sub

\* s.startswith(prefix)
StartsWith(s, prefix) ==
    /\ Len(prefix) <= Len(s)
    /\ SubSeq(s, 1, Len(prefix)) = prefix

\* str.strip(): drop leading and trailing whitespace
Strip(s) ==
    LET keep == {i \in 1..Len(s) : s[i] \notin Whitespace}
    IN  IF keep = {} THEN << >>
        ELSE LET lo == CHOOSE i \in keep : \A j \in keep : i <= j
                 hi == CHOOSE i \in keep : \A j \in keep : j <= i
             IN  SubSeq(s, lo, hi)

\* str(bool) as used by the f-string that builds item_id
BoolStr(b) == IF b THEN <<"T","r","u","e">> ELSE <<"F","a","l","s","e">>

\* the phrases tested by the name filter
CrownStorePhrase == <<"c","r","o","w","n"," ","s","t","o","r","e">>

PurchaseCrownsPhrase == <<"p","u","r","c","h","a","s","e"," ","c","r","o","w","n","s">>

\* ------------------------------------------------- extract_item_details
\* A rendered detail page, as the driver answers the classifier's queries:
\*   nav        driver.get / the readiness wait / a page-level query succeeds
\*   markers    the nodes matched by //*[contains(text(), 'FREE!')], in DOM
\*              order; loyal: the node or an ancestor has class
\*              eso-plus-loyalty; stale: inspecting the node raises
\*   deal       some node's text holds both 'FREE!' and 'With ESO Plus Deal'
\*   loyaltyElsewhere  some node with class eso-plus-loyalty encloses no
\*              FREE! node (another offer shown on the same page)
\*   headings   the texts of the //h1, //h2, //h3 matches, in probe order
\*   imgQueryRaises, images   the <img> nodes; size unreadable: img.size raises;
\*              srcRaises: get_attribute('src') raises

\* a name filter that lets storefront chrome through
IsValidNameKeepsChrome(text) ==
    /\ text # << >>
    /\ Len(text) > MinNameLen

\* line 208: the filter on a candidate name, applied to element.text.strip()
IsValidName(text) ==
    /\ text # << >>
    /\ Len(text) > MinNameLen
    /\ ~Contains(Lower(text), CrownStorePhrase)
    /\ ~Contains(Lower(text), PurchaseCrownsPhrase)

\* lines 205-212 for the elements of one selector list: first valid text
FirstValidName(texts) ==
    LET ok == {i \in 1..Len(texts) : IsValidName(Strip(texts[i]))}
    IN  IF ok = {} THEN None
        ELSE Some(Strip(texts[CHOOSE i \in ok : \A j \in ok : i <= j]))

\* lines 194-212: probe the selectors in order.  The fourth selector,
\* '//*[@class*="title"]', is not an XPath expression ('*=' is CSS), so
\* find_elements raises InvalidSelectorException for it; it is evaluated
\* only when no //h1, //h2 or //h3 text gave a name
ResolveName(page) ==
    LET h == FirstValidName(page.headings)
    IN  IF h # None THEN [raised |-> FALSE, name |-> h]
        ELSE [raised |-> TRUE, name |-> None]

\* a marker loop that gives up at the first marker whose inspection raises
RECURSIVE MarkerLoopStopsOnError(_, _)
MarkerLoopStopsOnError(markers, i) ==
    IF i > Len(markers) THEN FALSE
    ELSE IF markers[i].stale THEN FALSE
    ELSE IF markers[i].loyal THEN TRUE
    ELSE MarkerLoopStopsOnError(markers, i + 1)

\* lines 136-168: the per-marker loop; an exception skips the marker, the
\* first marker within an eso-plus-loyalty container ends the loop
RECURSIVE MarkerLoop(_, _)
MarkerLoop(markers, i) ==
    IF i > Len(markers) THEN FALSE
    ELSE IF markers[i].stale THEN MarkerLoop(markers, i + 1)
    ELSE IF markers[i].loyal THEN TRUE
    ELSE MarkerLoop(markers, i + 1)

\* a page-wide test for the eso-plus-loyalty class
ClassifyTierPageWide(page) ==
    page.deal \/ page.loyaltyElsewhere \/ MarkerLoop(page.markers, 1)

\* lines 134-191: is_eso_plus_free
ClassifyTier(page) ==
    LET is_eso_plus_free_found == MarkerLoop(page.markers, 1)
    IN  IF page.deal THEN TRUE ELSE is_eso_plus_free_found

\* lines 242-245: the filter on an image address
ImageSrcOk(src) ==
    /\ src # << >>
    /\ Contains(src, <<"akamaihd.net">>)
    /\ Contains(src, <<"ape", "uploads">>)
    /\ ~Contains(src, <<"icon-crown">>)

\* unique_images[k] = v on an insertion-ordered dict
DictPut(d, k, v) ==
    IF \E i \in 1..Len(d) : d[i].k = k
    THEN [i \in 1..Len(d) |-> IF d[i].k = k THEN [k |-> k, v |-> v] ELSE d[i]]
    ELSE Append(d, [k |-> k, v |-> v])

\* a size test that is content with one large side
LargeEnoughEitherSide(width, height) == width > MinImageSide \/ height > MinImageSide

\* line 251: only larger images
LargeEnough(width, height) == width > MinImageSide /\ height > MinImageSide

\* lines 240-254: the loop filling unique_images
RECURSIVE FillImages(_, _, _)
FillImages(imgs, i, acc) ==
    IF i > Len(imgs) THEN acc
    ELSE LET img == imgs[i]
         IN  IF ~ImageSrcOk(img.src) THEN FillImages(imgs, i + 1, acc)
             ELSE IF ~img.readable
                  THEN FillImages(imgs, i + 1, DictPut(acc, img.src, 0))
             ELSE IF LargeEnough(img.width, img.height)
                  THEN FillImages(imgs, i + 1,
                                  DictPut(acc, img.src, img.width * img.height))
             ELSE FillImages(imgs, i + 1, acc)

\* line 258: max(unique_images.keys(), key=...) returns the first maximal key
MaxKey(d) ==
    d[CHOOSE i \in 1..Len(d) :
        /\ \A j \in 1..Len(d) : d[j].v <= d[i].v
        /\ \A j \in 1..(i - 1) : d[j].v < d[i].v].k

\* line 236: the nodes matched by //img[contains(@src, "/ape/uploads/")]
ImgElements(page) ==
    LET idx == {i \in 1..Len(page.images) :
                   page.images[i].srcRaises
                   \/ Contains(page.images[i].src, <<"ape", "uploads">>)}
        RECURSIVE Pick(_)
        Pick(i) == IF i > Len(page.images) THEN << >>
                   ELSE IF i \in idx THEN <<page.images[i]>> \o Pick(i + 1)
                   ELSE Pick(i + 1)
    IN  Pick(1)

\* lines 230-266: image_url; any exception of the step leaves it None
SelectImage(page) ==
    IF page.imgQueryRaises THEN None
    ELSE LET img_elements == ImgElements(page)
         IN  IF \E i \in 1..Len(img_elements) : img_elements[i].srcRaises
             THEN None
             ELSE LET unique_images == FillImages(img_elements, 1, << >>)
                  IN  IF unique_images # << >> THEN MaxKey(unique_images)
                      ELSE None

\* lines 80-272 with item_url given: None (<< >>) or <<item_details>>
ExtractItemDetails(page, category_url, item_url, now) ==
    IF ~page.nav THEN None
    ELSE IF page.markers = << >> THEN None
    ELSE LET is_eso_plus_free == ClassifyTier(page)
             is_free == TRUE
             res == ResolveName(page)
         IN  IF res.raised THEN None
             ELSE IF res.name = None \/ ~is_free THEN None
             ELSE Some([name             |-> res.name[1],
                        url              |-> item_url,
                        category_url     |-> category_url,
                        image_url        |-> SelectImage(page),
                        is_eso_plus_free |-> is_eso_plus_free,
                        found_date       |-> now])

\* an identity built from the address instead of the name
ItemIdByUrl(item_details) ==
    item_details.url \o <<"-">> \o BoolStr(item_details.is_eso_plus_free)

\* line 403: item_id = f"{name}-{is_eso_plus_free}"
ItemId(item_details) ==
    item_details.name \o <<"-">> \o BoolStr(item_details.is_eso_plus_free)

\* ------------------------------------------------------------- addresses
\* "https://www.elderscrollsonline.com/en-us/crownstore", by path segment
Root == <<"www.elderscrollsonline.com", "en-us", "crownstore">>

\* lines 339-347
priority_urls ==
    << Root \o <<"category", "159">>,
       Root \o <<"category", "78">>,
       Root \o <<"category", "78#quest-starters">>,
       Root \o <<"category", "78#currency">>,
       Root \o <<"category", "71">>,
       Root \o <<"category", "1">>,
       Root \o <<"eso-plus">> >>

ItemNumbers == <<"1001", "1002", "1003", "1004">>

\* the detail-page addresses of the storefront: .../crownstore/item/<n>
ItemUrls == {Root \o <<"item", ItemNumbers[n]>> : n \in 1..MaxItemUrls}

OtherCategory == Root \o <<"category", "2">>

AccountPage == <<"account.elderscrollsonline.com", "en-us", "login">>

\* the hrefs the root page's <a> nodes can carry
LinkUniverse == {priority_urls[1], OtherCategory, AccountPage, Root}

Range(f) == {f[i] : i \in DOMAIN f}

\* the orders list(a_set) can produce
Orders(S) ==
    {f \in [1..Cardinality(S) -> S] : \A i, j \in 1..Cardinality(S) : f[i] = f[j] => i = j}

\* [x for x in xs if keep(x)]
RECURSIVE FilterOut(_, _)
FilterOut(xs, drop) ==
    IF xs = << >> THEN << >>
    ELSE IF Head(xs) \in drop THEN FilterOut(Tail(xs), drop)
    ELSE <<Head(xs)>> \o FilterOut(Tail(xs), drop)

\* all sequences over S of length at most n
SeqUpTo(S, n) == UNION {[1..k -> S] : k \in 0..n}

\* ------------------------------------------------- the storefront's pages
TxtElk == <<"E","l","k">>

TxtPaddedElk == <<" ","E","l","k","\n">>

TxtPaddedShort == <<" ","a","b"," ">>

TxtCrownStore == <<"E","S","O"," ","C","r","o","w","n"," ","S","t","o","r","e">>

TxtPurchaseCrowns == <<"P","U","R","C","H","A","S","E"," ","C","r","o","w","n","s">>

\* the texts an element of a detail page can show
NameTexts == {<< >>, TxtElk, TxtPaddedElk, TxtPaddedShort, TxtCrownStore, TxtPurchaseCrowns}

Marker(loyal, stale) == [loyal |-> loyal, stale |-> stale]

DetailMarkers == {Marker(l, s) : l \in BOOLEAN, s \in BOOLEAN}

SrcA == <<"esosslfiles-a", "akamaihd.net", "ape", "uploads", "elk.jpg">>

SrcB == <<"esosslfiles-a", "akamaihd.net", "ape", "uploads", "elk-side.jpg">>

SrcIcon == <<"esosslfiles-a", "akamaihd.net", "ape", "uploads", "icon-crown", "png">>

SrcOffsite == <<"cdn.example.com", "ape", "uploads", "banner.jpg">>

Img(src, width, height) ==
    [src |-> src, width |-> width, height |-> height, readable |-> TRUE, srcRaises |-> FALSE]

\* an <img> whose img.size raises
ImgUnreadable(src) ==
    [src |-> src, width |-> 0, height |-> 0, readable |-> FALSE, srcRaises |-> FALSE]

\* an <img> whose get_attribute('src') raises
ImgStale == [src |-> << >>, width |-> 0, height |-> 0, readable |-> FALSE, srcRaises |-> TRUE]

ImageSizes == {<<50, 50>>, <<300, 100>>, <<101, 101>>, <<150, 150>>, <<300, 200>>}

\* the <img> nodes a detail page can hold
ImageNodes ==
    {Img(src, sz[1], sz[2]) : src \in {SrcA, SrcB}, sz \in ImageSizes}
    \cup {Img(SrcIcon, 300, 200), Img(SrcOffsite, 300, 200)}
    \cup {ImgUnreadable(SrcA), ImgUnreadable(SrcB), ImgUnreadable(SrcIcon)}
    \cup {ImgStale}

DetailPage(nav, markers, deal, headings, imgQueryRaises, images) ==
    [nav |-> nav, markers |-> markers, deal |-> deal, loyaltyElsewhere |-> FALSE,
     headings |-> headings, imgQueryRaises |-> imgQueryRaises, images |-> images]

\* navigation to the page times out
PageTimeout == DetailPage(FALSE, << >>, FALSE, << >>, FALSE, << >>)

\* the offer has ended: no FREE! marker, but a name
PageNotFree == DetailPage(TRUE, << >>, FALSE, <<TxtElk>>, FALSE, << >>)

\* a FREE! marker, but only storefront chrome in the headings
PageNoName ==
    DetailPage(TRUE, <<Marker(FALSE, FALSE)>>, FALSE, <<TxtCrownStore>>, FALSE, << >>)

\* "Elk", free for everyone
PageElk ==
    DetailPage(TRUE, <<Marker(FALSE, FALSE)>>, FALSE, <<TxtElk>>, FALSE, << >>)

\* "Elk", free with ESO Plus, with a picture
PageElkPlus ==
    DetailPage(TRUE, <<Marker(TRUE, FALSE)>>, FALSE, <<TxtPaddedElk>>,
               FALSE, <<Img(SrcA, 300, 200)>>)

\* what a detail-page address can show when the sweep visits it
StorePages == {PageTimeout, PageNotFree, PageNoName, PageElk, PageElkPlus}

\* a FREE! node of a listing page: raises: no item/product/card ancestor, or
\* a stale node; hrefs: the hrefs of the links inside its container
ListingMarker(raises, hrefs) == [raises |-> raises, hrefs |-> hrefs]

ListingMarkers ==
    {ListingMarker(TRUE, << >>), ListingMarker(FALSE, <<priority_urls[1]>>)}
    \cup {ListingMarker(FALSE, <<OtherCategory, u>>) : u \in ItemUrls}
    \cup {ListingMarker(FALSE, <<p[1], p[2]>>) :
            p \in {q \in ItemUrls \X ItemUrls : q[1] # q[2]}}

ListingPage(nav, markers) == [nav |-> nav, markers |-> markers]

\* the listing pages on which the storefront shows FREE! markers
FreeListings == {priority_urls[1], Root}

\* what a listing address can show when the sweep visits it
ListingPagesAt(url) ==
    IF url \in FreeListings
    THEN {ListingPage(FALSE, << >>)}
         \cup {ListingPage(TRUE, m) : m \in SeqUpTo(ListingMarkers, MaxListingMarkers)}
    ELSE {ListingPage(FALSE, << >>), ListingPage(TRUE, << >>)}

\* lines 379-383: the first href of the container that is an item address
FirstItemHref(hrefs) ==
    LET ok == {i \in 1..Len(hrefs) : hrefs[i] # << >> /\ Contains(hrefs[i], <<"crownstore", "item">>)}
    IN  IF ok = {} THEN {} ELSE {hrefs[CHOOSE i \in ok : \A j \in ok : i <= j]}

\* lines 371-387: item_urls_to_check of a loaded listing page
CollectItemUrls(markers) ==
    UNION {IF markers[i].raises THEN {} ELSE FirstItemHref(markers[i].hrefs) :
           i \in 1..Len(markers)}

\* ------------------------------------------------------------ the ledger
\* posted_items.json: absent, unparsable, or a JSON array of strings
FileAbsent == [kind |-> "absent", data |-> << >>]

FileCorrupt == [kind |-> "corrupt", data |-> << >>]

FileJson(data) == [kind |-> "json", data |-> data]

\* a load that never reads the file back
LoadPostedItemsForgets(file) == {}

\* lines 302-311
LoadPostedItems(file) ==
    IF file.kind = "json" THEN Range(file.data) ELSE {}

\* a dump that writes one entry only
SavedFilesOneEntry(posted) == {FileJson(<<x>>) : x \in posted}

\* lines 313-320: the contents json.dump(list(posted_items)) can write
SavedFiles(posted) == {FileJson(order) : order \in Orders(posted)}

\* lines 274-300: the return value, by what requests.post does
SendItemToDiscord(item_details, response) ==
    IF response.raised THEN FALSE
    ELSE response.status = Status204

\* lines 278-281
FreeText(item_details) ==
    IF item_details.is_eso_plus_free THEN "FREE with ESO Plus!" ELSE "FREE!"

\* what requests.post can do
Responses ==
    {[raised |-> FALSE, status |-> Status204], [raised |-> FALSE, status |-> 500],
     [raised |-> TRUE, status |-> 0]}

\* ------------------------------------------------------------------ state
VARIABLES
    ledgerFile,         \* the file posted_items.json
    runNo,              \* how many runs of the script have started
    pc,                 \* where the current run stands in scrape_free_items
    driver,             \* "none", "open", "quit": the browser session
    posted_items,       \* line 330
    new_posted_items,   \* line 331
    free_items,         \* line 325
    processed_urls,     \* line 326
    urls_to_check,      \* line 351
    idx,                \* position of `for url in urls_to_check`
    item_urls_to_check, \* line 371, the addresses the inner loop has left
    sent,               \* history: the calls of send_item_to_discord of this run
    extractLog,         \* history: the calls of extract_item_details of this run
    saved,              \* history: what save_posted_items did in this run
    prevIds,            \* history: the identities the previous run classified,
                        \* when it wrote its ledger
    prevSaveOk,         \* history: the previous run wrote its ledger
    sentBefore,         \* history: the identities earlier runs dispatched
    chainOk,            \* history: every run so far wrote its ledger
    visited,            \* history: the listing addresses line 358 has loaded
    calls,              \* history: calls of load_posted_items, driver.quit and
                        \* save_posted_items made by the run in progress, or
                        \* by the latest run when it was killed
    ledgerAtStart,      \* history: posted_items.json as that run found it
    ut                 \* the inputs of a single step taken on its own

vars == <<ledgerFile, runNo, pc, driver, posted_items, new_posted_items, free_items,
          processed_urls, urls_to_check, idx, item_urls_to_check, sent, extractLog,
          saved, prevIds, prevSaveOk, sentBefore, chainOk, visited, calls,
          ledgerAtStart, ut>>

runVars == <<posted_items, new_posted_items, free_items, processed_urls,
             urls_to_check, idx, item_urls_to_check>>

histVars == <<sent, extractLog, saved, prevIds, prevSaveOk, sentBefore, chainOk>>

auditVars == <<visited, calls, ledgerAtStart>>

\* no call of load_posted_items, driver.quit or save_posted_items yet
NoCalls == [load |-> 0, quit |-> 0, save |-> 0]

\* no page is singled out during a full sweep
NoUnit == [page |-> PageTimeout]

\* the ledger files a first run can find
InitialLedgers == {FileAbsent, FileJson(<<TxtElk \o <<"-">> \o BoolStr(FALSE)>>)}

Init ==
    /\ ledgerFile \in InitialLedgers
    /\ runNo = 0
    /\ pc = "idle"
    /\ driver = "none"
    /\ posted_items = {}
    /\ new_posted_items = {}
    /\ free_items = << >>
    /\ processed_urls = {}
    /\ urls_to_check = << >>
    /\ idx = 0
    /\ item_urls_to_check = {}
    /\ sent = << >>
    /\ extractLog = << >>
    /\ saved = "no"
    /\ prevIds = {}
    /\ prevSaveOk = FALSE
    /\ sentBefore = {}
    /\ chainOk = TRUE
    /\ visited = << >>
    /\ calls = NoCalls
    /\ ledgerAtStart = ledgerFile
    /\ ut = NoUnit

\* lines 324-327: setup_driver() and the run's empty collections
SetupDriver ==
    /\ pc = "idle"
    /\ runNo < MaxRuns
    /\ runNo' = runNo + 1
    /\ driver' = "open"
    /\ free_items' = << >>
    /\ processed_urls' = {}
    /\ pc' = "load"
    /\ visited' = << >>
    /\ calls' = NoCalls
    /\ ledgerAtStart' = ledgerFile
    /\ UNCHANGED <<ledgerFile, posted_items, new_posted_items, urls_to_check, idx,
                   item_urls_to_check, histVars, ut>>

\* line 324 raises (no browser can be started): the exception leaves main
\* and the process ends before anything was loaded
SetupDriverFails ==
    /\ pc = "idle"
    /\ runNo < MaxRuns
    /\ runNo' = runNo + 1
    /\ prevIds' = {}
    /\ prevSaveOk' = FALSE
    /\ chainOk' = FALSE
    /\ sentBefore' = {}
    /\ visited' = << >>
    /\ calls' = NoCalls
    /\ ledgerAtStart' = ledgerFile
    /\ UNCHANGED <<ledgerFile, pc, driver, runVars, sent, extractLog, saved, ut>>

\* lines 329-332
LoadLedger ==
    /\ pc = "load"
    /\ posted_items' = LoadPostedItems(ledgerFile)
    /\ new_posted_items' = LoadPostedItems(ledgerFile)
    /\ pc' = "discover"
    /\ calls' = [calls EXCEPT !.load = @ + 1]
    /\ UNCHANGED <<ledgerFile, runNo, driver, free_items, processed_urls, urls_to_check,
                   idx, item_urls_to_check, histVars, visited, ledgerAtStart, ut>>

\* the root page as discovery finds it; raises: driver.get, the wait or
\* find_elements raises; links: the hrefs of its <a> nodes; stale: the nodes
\* whose get_attribute raises
RootPage(raises, links, stale) == [raises |-> raises, links |-> links, stale |-> stale]

RootPages ==
    {RootPage(raises, links, stale) :
        raises \in BOOLEAN,
        links \in SUBSET LinkUniverse,
        stale \in SUBSET LinkUniverse}

\* a discovery whose fallback is the empty list
GetAllCrownstoreUrlsNoFallback(page) ==
    IF page.raises THEN {<< >>}
    ELSE Orders({href \in page.links \ page.stale : StartsWith(href, Root)} \cup {Root})

\* lines 44-78: the lists get_all_crownstore_urls can return on that page,
\* one for each order list(urls) can produce
GetAllCrownstoreUrls(page) ==
    IF page.raises THEN {<<Root>>}
    ELSE Orders({href \in page.links \ page.stale : StartsWith(href, Root)} \cup {Root})

DiscoveredLists == UNION {GetAllCrownstoreUrls(page) : page \in RootPages}

\* a sweep list that keeps the priority addresses discovery found
SweepListKeepsDuplicates(all_urls) == priority_urls \o all_urls

\* lines 350-351
SweepList(all_urls) == priority_urls \o FilterOut(all_urls, Range(priority_urls))

\* lines 338-353, with all_urls as line 336 returned it
DiscoverStep(all_urls) ==
    /\ pc = "discover"
    /\ urls_to_check' = SweepList(all_urls)
    /\ idx' = 1
    /\ pc' = "sweep"
    /\ UNCHANGED <<ledgerFile, runNo, driver, posted_items, new_posted_items, free_items,
                   processed_urls, item_urls_to_check, histVars, auditVars>>

\* lines 334-353
Discover ==
    /\ \E all_urls \in DiscoveredLists : DiscoverStep(all_urls)
    /\ UNCHANGED ut

\* a sweep that gives up at the first listing page that fails to load
CheckUrlFromStopsOnError(pages) ==
    /\ \E page \in pages :
          LET found == IF page.nav THEN CollectItemUrls(page.markers) ELSE {}
          IN  /\ item_urls_to_check' = found
              /\ IF ~page.nav
                 THEN idx' = Len(urls_to_check) + 1 /\ pc' = "sweep"
                 ELSE IF found = {}
                 THEN idx' = idx + 1 /\ pc' = "sweep"
                 ELSE idx' = idx /\ pc' = "items"
    /\ visited' = Append(visited, urls_to_check[idx])
    /\ UNCHANGED <<ledgerFile, runNo, driver, posted_items, new_posted_items, free_items,
                   processed_urls, urls_to_check, histVars, calls,
                   ledgerAtStart, ut>>

\* lines 357-387 and 422-424 for urls_to_check[idx], which shows one of
\* `pages`: load the listing page and collect its item addresses; a page
\* that fails to load is skipped
CheckUrlFrom(pages) ==
    /\ \E page \in pages :
          LET found == IF page.nav THEN CollectItemUrls(page.markers) ELSE {}
          IN  /\ item_urls_to_check' = found
              /\ IF found = {}
                 THEN idx' = idx + 1 /\ pc' = "sweep"
                 ELSE idx' = idx /\ pc' = "items"
    /\ visited' = Append(visited, urls_to_check[idx])
    /\ UNCHANGED <<ledgerFile, runNo, driver, posted_items, new_posted_items, free_items,
                   processed_urls, urls_to_check, histVars, calls,
                   ledgerAtStart, ut>>

\* lines 355-387 and 422-424: the next iteration of `for url in urls_to_check`
CheckUrl ==
    /\ pc = "sweep"
    /\ idx <= Len(urls_to_check)
    /\ CheckUrlFrom(ListingPagesAt(urls_to_check[idx]))

\* a dedup test that lets nothing through
AlreadyPostedAlways(item_id, posted, new_posted) == TRUE

\* line 405: the dedup test
AlreadyPosted(item_id, posted, new_posted) == item_id \in posted

\* a notifier that forgets the identity again when the delivery failed
NotifyNewRollsBack(free, new_posted, sentlog, item_details, response) ==
    [free_items       |-> Append(free, item_details),
     new_posted_items |-> IF SendItemToDiscord(item_details, response)
                          THEN new_posted \cup {ItemId(item_details)}
                          ELSE new_posted,
     sent             |-> Append(sentlog,
                            [url      |-> item_details.url,
                             id       |-> ItemId(item_details),
                             text     |-> FreeText(item_details),
                             response |-> response,
                             ok       |-> SendItemToDiscord(item_details, response)])]

\* a sweep that marks an address as processed only by forgetting to
MarkProcessedForgets(processed, item_url) == processed

\* line 395
MarkProcessed(processed, item_url) == processed \cup {item_url}

\* a notifier that keeps the latest identity only
NotifyNewOnlyLatest(free, new_posted, sentlog, item_details, response) ==
    [free_items       |-> Append(free, item_details),
     new_posted_items |-> {ItemId(item_details)},
     sent             |-> Append(sentlog,
                            [url      |-> item_details.url,
                             id       |-> ItemId(item_details),
                             text     |-> FreeText(item_details),
                             response |-> response,
                             ok       |-> SendItemToDiscord(item_details, response)])]

\* a notifier that does not list the item
NotifyNewSkipsList(free, new_posted, sentlog, item_details, response) ==
    [free_items       |-> free,
     new_posted_items |-> new_posted \cup {ItemId(item_details)},
     sent             |-> Append(sentlog,
                            [url      |-> item_details.url,
                             id       |-> ItemId(item_details),
                             text     |-> FreeText(item_details),
                             response |-> response,
                             ok       |-> SendItemToDiscord(item_details, response)])]

\* lines 406-414: record the new item, then send it; the outcome of the
\* delivery is not looked at
NotifyNew(free, new_posted, sentlog, item_details, response) ==
    [free_items       |-> Append(free, item_details),
     new_posted_items |-> new_posted \cup {ItemId(item_details)},
     sent             |-> Append(sentlog,
                            [url      |-> item_details.url,
                             id       |-> ItemId(item_details),
                             text     |-> FreeText(item_details),
                             response |-> response,
                             ok       |-> SendItemToDiscord(item_details, response)])]

\* lines 390-420: one iteration of `for item_url in item_urls_to_check`,
\* where the detail page shows one of `pages`
ProcessItemFrom(pages) ==
    /\ pc = "items"
    /\ \E item_url \in item_urls_to_check :
          LET rest == item_urls_to_check \ {item_url}
          IN  /\ item_urls_to_check' = rest
              /\ IF rest = {}
                 THEN idx' = idx + 1 /\ pc' = "sweep"
                 ELSE idx' = idx /\ pc' = "items"
              /\ IF item_url \in processed_urls
                 THEN UNCHANGED <<processed_urls, free_items, new_posted_items, sent, extractLog>>
                 ELSE /\ processed_urls' = MarkProcessed(processed_urls, item_url)
                      /\ \E page \in pages :
                         \E item_details \in
                               {ExtractItemDetails(page, urls_to_check[idx], item_url, runNo)} :
                            /\ extractLog' = Append(extractLog,
                                   [url |-> item_url, page |-> page, result |-> item_details])
                            /\ IF item_details # None
                                  /\ ~AlreadyPosted(ItemId(item_details[1]), posted_items,
                                                    new_posted_items)
                               THEN \E response \in Responses :
                                    \E out \in {NotifyNew(free_items, new_posted_items, sent,
                                                          item_details[1], response)} :
                                       /\ free_items' = out.free_items
                                       /\ new_posted_items' = out.new_posted_items
                                       /\ sent' = out.sent
                               ELSE UNCHANGED <<free_items, new_posted_items, sent>>
    /\ UNCHANGED <<ledgerFile, runNo, driver, posted_items, urls_to_check, saved, prevIds,
                   prevSaveOk, sentBefore, chainOk, auditVars, ut>>

\* the sweep's iteration over the storefront's detail pages
ProcessItem == ProcessItemFrom(StorePages)

\* lines 428-429: the sweep is over, the finally clause quits the driver
QuitDriver ==
    /\ pc = "sweep"
    /\ idx > Len(urls_to_check)
    /\ driver' = "quit"
    /\ calls' = [calls EXCEPT !.quit = @ + 1]
    /\ pc' = "save"
    /\ UNCHANGED <<ledgerFile, runNo, runVars, histVars, visited,
                   ledgerAtStart, ut>>

\* an except clause that leaves the browser session open
SweepFailsLeavesSessionOpen ==
    /\ \/ pc = "discover"
       \/ pc = "sweep" /\ idx <= Len(urls_to_check)
    /\ pc' = "save"
    /\ UNCHANGED <<ledgerFile, runNo, driver, runVars, histVars, auditVars, ut>>

\* an except clause that ends the run without saving
SweepFailsSkipsSave ==
    /\ \/ pc = "discover"
       \/ pc = "sweep" /\ idx <= Len(urls_to_check)
    /\ driver' = "quit"
    /\ calls' = [calls EXCEPT !.quit = @ + 1]
    /\ pc' = "return"
    /\ UNCHANGED <<ledgerFile, runNo, runVars, histVars, visited,
                   ledgerAtStart, ut>>

\* lines 426-429: a statement of the outer try that no inner handler covers
\* (lines 336-353, the `for` of line 355) raises; the error is logged and the
\* finally clause quits the driver
SweepFails ==
    /\ \/ pc = "discover"
       \/ pc = "sweep" /\ idx <= Len(urls_to_check)
    /\ driver' = "quit"
    /\ calls' = [calls EXCEPT !.quit = @ + 1]
    /\ pc' = "save"
    /\ UNCHANGED <<ledgerFile, runNo, runVars, histVars, visited,
                   ledgerAtStart, ut>>

\* lines 431-434 with 313-320: the file is overwritten; open() can fail and
\* leave it as it was, json.dump can fail after the file was truncated
SaveLedger ==
    /\ pc = "save"
    /\ \/ ledgerFile' \in SavedFiles(new_posted_items) /\ saved' = "ok"
       \/ ledgerFile' = ledgerFile /\ saved' = "open failed"
       \/ ledgerFile' = FileCorrupt /\ saved' = "write failed"
    /\ pc' = "return"
    /\ calls' = [calls EXCEPT !.save = @ + 1]
    /\ UNCHANGED <<runNo, driver, runVars, sent, extractLog, prevIds, prevSaveOk,
                   sentBefore, chainOk, visited, ledgerAtStart, ut>>

\* the identities of the items extract_item_details returned in this run
ClassifiedIds == {ItemId(extractLog[i].result[1]) : i \in {j \in 1..Len(extractLog) : extractLog[j].result # None}}

\* the identities send_item_to_discord was called for in this run
SentIds == {sent[i].id : i \in 1..Len(sent)}

\* the process ends: nothing of the run is left but the files, and the
\* history keeps what the run did; wrote: the run wrote its ledger
EndOfProcess(wrote) ==
    /\ pc' = "idle"
    /\ driver' = "none"
    /\ posted_items' = {}
    /\ new_posted_items' = {}
    /\ free_items' = << >>
    /\ processed_urls' = {}
    /\ urls_to_check' = << >>
    /\ idx' = 0
    /\ item_urls_to_check' = {}
    /\ sent' = << >>
    /\ extractLog' = << >>
    /\ saved' = "no"
    /\ prevIds' = IF wrote THEN ClassifiedIds ELSE {}
    /\ prevSaveOk' = wrote
    /\ chainOk' = (chainOk /\ wrote)
    /\ sentBefore' = IF chainOk /\ wrote THEN sentBefore \cup SentIds ELSE {}
    /\ visited' = << >>
    /\ UNCHANGED <<runNo, ut>>

\* a process that flushes the identities found so far when it is killed
ProcessKilledAfterFlush ==
    /\ pc \in {"load", "discover", "sweep", "items", "save"}
    /\ pc' = "idle"
    /\ driver' = "none"
    /\ posted_items' = {}
    /\ new_posted_items' = {}
    /\ free_items' = << >>
    /\ processed_urls' = {}
    /\ urls_to_check' = << >>
    /\ idx' = 0
    /\ item_urls_to_check' = {}
    /\ sent' = << >>
    /\ extractLog' = << >>
    /\ saved' = "no"
    /\ prevIds' = {}
    /\ prevSaveOk' = FALSE
    /\ chainOk' = FALSE
    /\ sentBefore' = {}
    /\ visited' = << >>
    /\ ledgerFile' \in SavedFiles(new_posted_items)
    /\ UNCHANGED <<runNo, calls, ledgerAtStart, ut>>

\* lines 329-432: the process is killed (signal, power loss) after the
\* session was acquired and before save_posted_items is called
ProcessKilled ==
    /\ pc \in {"load", "discover", "sweep", "items", "save"}
    /\ EndOfProcess(FALSE)
    /\ UNCHANGED <<ledgerFile, calls, ledgerAtStart>>

\* lines 436 and 445-452: free_items is returned to main, which dumps it to
\* eso-free-items.json (a file nothing reads back); the process ends
ReturnToMain ==
    /\ pc = "return"
    /\ EndOfProcess(saved = "ok")
    /\ calls' = NoCalls
    /\ ledgerAtStart' = ledgerFile
    /\ UNCHANGED ledgerFile

Next ==
    \/ SetupDriver
    \/ SetupDriverFails
    \/ LoadLedger
    \/ Discover
    \/ CheckUrl
    \/ ProcessItem
    \/ SweepFails
    \/ QuitDriver
    \/ SaveLedger
    \/ ReturnToMain
    \/ ProcessKilled

Spec == Init /\ [][Next]_vars

\* ------------------------------------- extract_item_details on its own
\* the detail pages handed to the classifier: every combination of markers,
\* deal text, headings and class-selector behaviour, and every image list
ClassifierPages ==
    {PageTimeout}
    \cup {DetailPage(TRUE, markers, deal, headings, FALSE, << >>) :
            markers \in SeqUpTo(DetailMarkers, MaxDetailMarkers),
            deal \in BOOLEAN,
            headings \in SeqUpTo(NameTexts, MaxHeadings)}

\* pages that also show another offer styled eso-plus-loyalty
OtherOfferPages ==
    {[DetailPage(TRUE, markers, deal, <<TxtPaddedElk>>, FALSE, << >>)
         EXCEPT !.loyaltyElsewhere = TRUE] :
        markers \in SeqUpTo(DetailMarkers, MaxDetailMarkers),
        deal \in BOOLEAN}

ImagePages ==
    {DetailPage(TRUE, <<Marker(FALSE, FALSE)>>, FALSE, <<TxtElk>>, raises, images) :
        raises \in BOOLEAN,
        images \in SeqUpTo(ImageNodes, MaxImages)}

UnitItemUrl == Root \o <<"item", ItemNumbers[1]>>

ElkFalse == ItemId([name |-> TxtElk, is_eso_plus_free |-> FALSE])

\* the sweep has reached the root listing page, which led to one item
\* address; the detail page shows ut.page; "Elk-False" was posted by an
\* earlier run
InitItem ==
    /\ ledgerFile = FileJson(<<ElkFalse>>)
    /\ runNo = 1
    /\ pc = "items"
    /\ driver = "open"
    /\ posted_items = LoadPostedItems(ledgerFile)
    /\ new_posted_items = LoadPostedItems(ledgerFile)
    /\ free_items = << >>
    /\ processed_urls = {}
    /\ urls_to_check = SweepList(<<Root>>)
    /\ idx = Len(urls_to_check)
    /\ item_urls_to_check = {UnitItemUrl}
    /\ sent = << >>
    /\ extractLog = << >>
    /\ saved = "no"
    /\ prevIds = {}
    /\ prevSaveOk = FALSE
    /\ sentBefore = {}
    /\ chainOk = TRUE
    /\ visited = urls_to_check
    /\ calls = [load |-> 1, quit |-> 0, save |-> 0]
    /\ ledgerAtStart = ledgerFile
    /\ ut \in {[page |-> p] : p \in ClassifierPages \cup OtherOfferPages \cup ImagePages}

\* lines 390-420 for that address
ProcessUnit == ProcessItemFrom({ut.page})

NextItem == ProcessUnit

SpecItem == InitItem /\ [][NextItem]_vars

\* ------------------------------------------------------------------ claims

\* C1: over runs that each load the ledger the previous run persisted, and
\* within every run, a notification is dispatched at most once per identity
\* (name + subscription flag), also for two items of one run that have
\* different addresses and the same identity.
C1_AtMostOncePerIdentity ==
    chainOk =>
        /\ \A i, j \in 1..Len(sent) : sent[i].id = sent[j].id => i = j
        /\ SentIds \cap sentBefore = {}

\* the part of C1 that spans runs: an identity dispatched by an earlier run
\* is not dispatched again while every run persisted its ledger
C1_NotAgainInLaterRun == chainOk => SentIds \cap sentBefore = {}

\* C2: when a run has persisted its ledger and the next run classifies only
\* what that run classified (an unchanged storefront), the next run
\* dispatches no notification.
C2_SecondRunSilent ==
    (runNo >= 2 /\ prevSaveOk /\ pc # "idle" /\ ClassifiedIds \subseteq prevIds) => sent = << >>

\* a second run that has classified again everything the first run found and
\* notified, and is about to return
C2_Witness ==
    /\ runNo = 2
    /\ prevSaveOk
    /\ pc = "return"
    /\ sentBefore # {}
    /\ ClassifiedIds = prevIds
    /\ sentBefore \subseteq ClassifiedIds
    /\ sent = << >>

\* the calls of send_item_to_discord of this run made for the item at url
SendsFor(url) == {j \in 1..Len(sent) : sent[j].url = url}

\* C3: every classified item whose identity is not in the loaded ledger has
\* its identity in the set handed to save_posted_items, and in the file once
\* the save succeeded, whether the delivery returned 204, another status or
\* raised; exactly one delivery is attempted for it.
C3_SeenWhateverDelivery ==
    \A i \in 1..Len(extractLog) :
        LET e == extractLog[i]
        IN  (e.result # None /\ ItemId(e.result[1]) \notin posted_items) =>
                /\ ItemId(e.result[1]) \in new_posted_items
                /\ Cardinality(SendsFor(e.url)) = 1
                /\ (pc = "return" /\ saved = "ok") =>
                       ItemId(e.result[1]) \in LoadPostedItems(ledgerFile)

\* a run that is about to return after one delivery raised and another one
\* was answered with a status other than 204, with both identities saved
C3_Witness ==
    /\ pc = "return"
    /\ saved = "ok"
    /\ \E j, k \in 1..Len(sent) :
          /\ sent[j].response.raised
          /\ ~sent[k].response.raised /\ sent[k].response.status # Status204
          /\ ~sent[j].ok /\ ~sent[k].ok
          /\ {sent[j].id, sent[k].id} \subseteq LoadPostedItems(ledgerFile)
          /\ sent[j].id \notin posted_items /\ sent[k].id \notin posted_items

\* C4: within one run extract_item_details is called at most once per
\* detail-page address, whichever listing pages and markers lead to it and
\* whatever the first call returned.
C4_ClassifiedOncePerAddress ==
    \A i, j \in 1..Len(extractLog) : extractLog[i].url = extractLog[j].url => i = j

\* a later listing page leads to exactly one address, which timed out when it
\* was classified from an earlier listing page
C4_Witness ==
    /\ pc = "items"
    /\ idx > 1
    /\ \E i \in 1..Len(extractLog) :
          /\ extractLog[i].page = PageTimeout
          /\ extractLog[i].result = None
          /\ item_urls_to_check = {extractLog[i].url}
          /\ extractLog[i].url \in processed_urls

\* ------------------------------------------------- item_id on its own
TxtElkTrue == <<"E","l","k","-","T","r","u","e">>

\* the item_details records whose identities are compared
IdentityItems ==
    {[name |-> name, url |-> url, category_url |-> category_url, image_url |-> image_url,
      is_eso_plus_free |-> flag, found_date |-> found_date] :
        name \in {TxtElk, TxtElkTrue, TxtCrownStore},
        url \in {Root \o <<"item", ItemNumbers[1]>>, Root \o <<"item", ItemNumbers[2]>>},
        category_url \in {Root, priority_urls[1]},
        image_url \in {None, SrcA},
        flag \in BOOLEAN,
        found_date \in {1, 2}}

InitIdentity ==
    /\ ledgerFile = FileAbsent
    /\ runNo = 0
    /\ pc = "idle"
    /\ driver = "none"
    /\ posted_items = {}
    /\ new_posted_items = {}
    /\ free_items = << >>
    /\ processed_urls = {}
    /\ urls_to_check = << >>
    /\ idx = 0
    /\ item_urls_to_check = {}
    /\ sent = << >>
    /\ extractLog = << >>
    /\ saved = "no"
    /\ prevIds = {}
    /\ prevSaveOk = FALSE
    /\ sentBefore = {}
    /\ chainOk = TRUE
    /\ visited = << >>
    /\ calls = NoCalls
    /\ ledgerAtStart = ledgerFile
    /\ ut \in {[a |-> a, b |-> b, done |-> FALSE, item_id_a |-> << >>, item_id_b |-> << >>] :
                  a \in IdentityItems, b \in IdentityItems}

\* line 403 for two items
IdentityUnit ==
    /\ ~ut.done
    /\ ut' = [ut EXCEPT !.done = TRUE,
                        !.item_id_a = ItemId(ut.a),
                        !.item_id_b = ItemId(ut.b)]
    /\ UNCHANGED <<ledgerFile, runNo, pc, driver, runVars, histVars, auditVars>>

NextIdentity == IdentityUnit

SpecIdentity == InitIdentity /\ [][NextIdentity]_vars

\* C5: the identity depends on the name and the subscription flag only: two
\* items with equal name and equal flag get equal identities whatever their
\* url, category_url, image_url and found_date are, and two items with the
\* same name and different flags get different identities.
C5_IdentityFromNameAndFlag ==
    ut.done =>
        /\ (ut.a.name = ut.b.name /\ ut.a.is_eso_plus_free = ut.b.is_eso_plus_free)
               => ut.item_id_a = ut.item_id_b
        /\ (ut.a.name = ut.b.name /\ ut.a.is_eso_plus_free # ut.b.is_eso_plus_free)
               => ut.item_id_a # ut.item_id_b

\* two items that agree on name and flag and on nothing else, with their
\* identities computed
C5_Witness ==
    /\ ut.done
    /\ ut.a.name = ut.b.name
    /\ ut.a.is_eso_plus_free = ut.b.is_eso_plus_free
    /\ ut.a.url # ut.b.url
    /\ ut.a.category_url # ut.b.category_url
    /\ ut.a.image_url # ut.b.image_url
    /\ ut.a.found_date # ut.b.found_date
    /\ ut.item_id_a = ut.item_id_b
    /\ ut.item_id_a = TxtElk \o <<"-","F","a","l","s","e">>

\* a text qualifies as a name: trimmed, it is longer than 2 characters and
\* holds neither chrome phrase, whatever the case of its letters
C6_Qualifies(text) ==
    LET t == Strip(text)
    IN  /\ Len(t) > 2
        /\ ~Contains(Lower(t), CrownStorePhrase)
        /\ ~Contains(Lower(t), PurchaseCrownsPhrase)

\* the page gives the name probe a text that qualifies
C6_NameResolvable(page) ==
    \E i \in 1..Len(page.headings) : C6_Qualifies(page.headings[i])

\* C6: extract_item_details returns an item only if the detail page showed at
\* least one FREE! marker and a qualifying name was resolved (and then the
\* item carries such a name); with no marker or no qualifying name it returns
\* nothing, and then nothing is sent, added to the ledger set or put on the
\* item list for that page.
C6_ItemNeedsMarkerAndName ==
    \A i \in 1..Len(extractLog) :
        LET e == extractLog[i]
        IN  /\ e.result # None =>
                  /\ Len(e.page.markers) >= 1
                  /\ C6_NameResolvable(e.page)
                  /\ C6_Qualifies(e.result[1].name)
                  /\ e.result[1].name = Strip(e.result[1].name)
            /\ (Len(e.page.markers) = 0 \/ ~C6_NameResolvable(e.page)) =>
                  /\ e.result = None
                  /\ SendsFor(e.url) = {}
                  /\ \A k \in 1..Len(free_items) : free_items[k].url # e.url
                  /\ new_posted_items = posted_items \cup SentIds

\* a page with a FREE! marker whose headings are chrome and a too short text
\* was classified: no item, nothing sent, nothing recorded
C6_Witness ==
    /\ Len(extractLog) = 1
    /\ extractLog[1].page.nav
    /\ Len(extractLog[1].page.markers) >= 1
    /\ extractLog[1].page.headings = <<TxtCrownStore, TxtPaddedShort>>
    /\ extractLog[1].result = None
    /\ sent = << >>
    /\ free_items = << >>
    /\ new_posted_items = posted_items

\* C7 as stated: when some FREE! marker of the detail page has the
\* eso-plus-loyalty class on itself or an ancestor, the emitted item has
\* is_eso_plus_free = TRUE, whatever the other markers are.
C7_LoyalMarkerMeansSubscription ==
    \A i \in 1..Len(extractLog) :
        LET e == extractLog[i]
        IN  (e.result # None /\ \E m \in 1..Len(e.page.markers) : e.page.markers[m].loyal)
                => e.result[1].is_eso_plus_free

\* C7 amended: when some FREE! marker whose own inspection does not raise has
\* the eso-plus-loyalty class on itself or an ancestor, the emitted item has
\* is_eso_plus_free = TRUE, whatever the other markers are and also when
\* inspecting other markers raised.
C7_InspectedLoyalMarkerMeansSubscription ==
    \A i \in 1..Len(extractLog) :
        LET e == extractLog[i]
        IN  (/\ e.result # None
             /\ \E m \in 1..Len(e.page.markers) :
                    e.page.markers[m].loyal /\ ~e.page.markers[m].stale)
                => e.result[1].is_eso_plus_free

\* the first marker's inspection raised, the second marker is within an
\* eso-plus-loyalty container, no deal text: the item is subscription-gated
C7_Witness ==
    /\ Len(extractLog) = 1
    /\ extractLog[1].page.markers = <<Marker(FALSE, TRUE), Marker(TRUE, FALSE)>>
    /\ ~extractLog[1].page.deal
    /\ extractLog[1].result # None
    /\ extractLog[1].result[1].is_eso_plus_free
    /\ Len(sent) = 1
    /\ sent[1].text = "FREE with ESO Plus!"

\* C8: a detail page with at least one FREE! marker, none of them within an
\* eso-plus-loyalty container, and no node holding both 'FREE!' and 'With ESO
\* Plus Deal', gives is_eso_plus_free = FALSE; eso-plus-loyalty nodes that
\* enclose no FREE! marker do not change this.
C8_NoSignalMeansFreeForAll ==
    \A i \in 1..Len(extractLog) :
        LET e == extractLog[i]
        IN  (/\ e.result # None
             /\ Len(e.page.markers) >= 1
             /\ \A m \in 1..Len(e.page.markers) : ~e.page.markers[m].loyal
             /\ ~e.page.deal)
                => ~e.result[1].is_eso_plus_free

\* a page with two plain markers and another offer in an eso-plus-loyalty
\* container was classified as free for everyone
C8_Witness ==
    /\ Len(extractLog) = 1
    /\ Len(extractLog[1].page.markers) = 2
    /\ \A m \in 1..2 : ~extractLog[1].page.markers[m].loyal
    /\ ~extractLog[1].page.deal
    /\ extractLog[1].page.loyaltyElsewhere
    /\ extractLog[1].result # None
    /\ ~extractLog[1].result[1].is_eso_plus_free

\* C9: the run's item list, which is what main writes to the output file,
\* holds every item extract_item_details returned during the run, whether or
\* not a notification was dispatched for it.
C9_ItemListHoldsEveryClassifiedItem ==
    \A i \in 1..Len(extractLog) :
        extractLog[i].result # None =>
            \E k \in 1..Len(free_items) : free_items[k] = extractLog[i].result[1]

\* the <img> nodes of the page that are candidates: the address holds the
\* asset path and the asset host and is not the crown icon
C10_Candidates(page) ==
    {i \in 1..Len(page.images) :
        /\ ~page.images[i].srcRaises
        /\ Contains(page.images[i].src, <<"ape", "uploads">>)
        /\ Contains(page.images[i].src, <<"akamaihd.net">>)
        /\ ~Contains(page.images[i].src, <<"icon-crown">>)}

\* the candidates whose rendered width and height are both above 100
C10_Qualifying(page) ==
    {i \in C10_Candidates(page) :
        /\ page.images[i].readable
        /\ page.images[i].width > 100
        /\ page.images[i].height > 100}

C10_Area(page, i) == page.images[i].width * page.images[i].height

C10_StepRaised(page) ==
    page.imgQueryRaises \/ \E i \in 1..Len(page.images) : page.images[i].srcRaises

\* the candidates that get an entry: both sides above 100, or size unreadable
C10_Recorded(page) ==
    {i \in C10_Candidates(page) : ~page.images[i].readable \/ i \in C10_Qualifying(page)}

\* the area kept for the address of candidate i: that of the last recorded
\* candidate with this address, 0 when its size could not be read
C10_KeptArea(page, i) ==
    LET same == {j \in C10_Recorded(page) : page.images[j].src = page.images[i].src}
        last == CHOOSE j \in same : \A k \in same : k <= j
    IN  IF page.images[last].readable THEN C10_Area(page, last) ELSE 0

C11_LedgerUntouchedBeforePersist ==
    calls.save = 0 => ledgerFile = ledgerAtStart

\* a run that found a ledger, dispatched a notification for a new identity
\* and released the session, and has not called save_posted_items yet
C11_Witness ==
    /\ pc = "save"
    /\ calls.save = 0
    /\ ledgerAtStart.kind = "json"
    /\ sent # << >>
    /\ new_posted_items # LoadPostedItems(ledgerFile)
    /\ ledgerFile = ledgerAtStart

\* a step in which driver.get is called: for the root page by discovery
\* (line 50), for a listing page (line 358) or for a detail page (line 113)
Navigates ==
    \/ pc = "discover" /\ pc' = "sweep"
    \/ Len(visited') > Len(visited)
    \/ Len(extractLog') > Len(extractLog)

\* C12: the browser session acquired at line 324 is released exactly once
\* before save_posted_items is called and the run returns, whether the sweep
\* ran to its end (with discovery, listing pages or items failing on the
\* way) or an unexpected error ended it early; a released session is never
\* navigated, and every navigation happens on the open session.
C12_SessionReleasedOnce ==
    [][/\ pc' \in {"save", "return"} => (driver' = "quit" /\ calls'.quit = 1)
       /\ pc' \in {"load", "discover", "sweep", "items"} =>
              (driver' = "open" /\ calls'.quit = 0)
       /\ Navigates => (driver = "open" /\ driver' = "open")]_vars

\* a sweep that was ended by an unexpected error after a listing page had
\* failed to load and an item had timed out, with its session released
C12_Witness ==
    /\ pc = "save"
    /\ idx <= Len(urls_to_check)
    /\ idx > 1
    /\ \E i \in 1..Len(extractLog) : extractLog[i].page = PageTimeout
    /\ driver = "quit"
    /\ calls.quit = 1

\* a step in which an item is classified or a notification is dispatched
C17_DedupOrDispatch ==
    \/ Len(extractLog') > Len(extractLog)
    \/ Len(sent') > Len(sent)

\* C17: a run that acquired its session and returns has called
\* load_posted_items once and save_posted_items once; every classification,
\* dedup decision and dispatch happens after the load and before the save,
\* and the save happens after the session was released, also when an
\* unexpected error ended the sweep early.
C17_OneLoadOnePersist ==
    [][/\ pc' = "return" => calls' = [load |-> 1, quit |-> 1, save |-> 1]
       /\ C17_DedupOrDispatch => (calls.load = 1 /\ calls.save = 0 /\ calls'.save = 0)
       /\ calls'.load > calls.load => (calls.load = 0 /\ calls.save = 0)
       /\ calls'.save > calls.save =>
              (calls.load = 1 /\ calls.save = 0 /\ driver = "quit" /\ calls.quit = 1)]_vars

\* a run whose sweep was ended by an unexpected error after it had
\* dispatched a notification has saved its ledger and is about to return
C17_Witness ==
    /\ pc = "return"
    /\ idx <= Len(urls_to_check)
    /\ idx > 1
    /\ sent # << >>
    /\ saved = "ok"
    /\ calls = [load |-> 1, quit |-> 1, save |-> 1]

\* C19: the set a run keeps in memory always contains the set it loaded,
\* and the identities in the file a run has written contain the identities
\* of the file it loaded: while posted_items.json is a JSON array before and
\* after a step, no step removes an identity from it.
C19_LedgerOnlyGrows ==
    [][/\ posted_items' \subseteq new_posted_items'
       /\ (calls'.save > calls.save /\ saved' = "ok") =>
              /\ posted_items \subseteq LoadPostedItems(ledgerFile')
              /\ LoadPostedItems(ledgerAtStart) \subseteq LoadPostedItems(ledgerFile')
       /\ (ledgerFile.kind = "json" /\ ledgerFile'.kind = "json") =>
              LoadPostedItems(ledgerFile) \subseteq LoadPostedItems(ledgerFile')]_vars

\* a second run has written a ledger that holds what it loaded and one
\* identity more
C19_Witness ==
    /\ runNo = 2
    /\ pc = "return"
    /\ saved = "ok"
    /\ posted_items # {}
    /\ posted_items = LoadPostedItems(ledgerAtStart)
    /\ posted_items \subseteq LoadPostedItems(ledgerFile)
    /\ LoadPostedItems(ledgerFile) # posted_items

\* the items of the run's list and the calls of send_item_to_discord, by address
C20_Listed == [i \in 1..Len(free_items) |-> free_items[i].url]

C20_Dispatched == [i \in 1..Len(sent) |-> sent[i].url]

\* C20: at every point of a run the identities in memory beyond the loaded
\* ledger are exactly the identities send_item_to_discord was called for in
\* this run, the items of free_items are exactly the items it was called
\* for, in the same order, and a step in which an address is skipped or its
\* classification returns nothing adds no identity and no item.
C20_AdditionsMatchDispatches ==
    [][/\ new_posted_items' \ posted_items' = {sent'[i].id : i \in 1..Len(sent')}
       /\ C20_Listed' = C20_Dispatched'
       /\ \A i \in 1..Len(free_items') : ItemId(free_items'[i]) = sent'[i].id
       /\ (pc = "items" /\ pc' # "idle" /\ Len(sent') = Len(sent)) =>
              (new_posted_items' = new_posted_items /\ free_items' = free_items)
       /\ (Len(extractLog') > Len(extractLog)
              /\ extractLog'[Len(extractLog')].result = None) =>
              (Len(sent') = Len(sent) /\ new_posted_items' = new_posted_items)]_vars

\* a run with a loaded ledger that got nothing for one address and
\* dispatched the item of another, whose identity is the one addition in
\* memory and whose record is the one entry of free_items
C20_Witness ==
    /\ pc \in {"sweep", "items"}
    /\ posted_items # {}
    /\ Len(extractLog) = 2
    /\ \E i, j \in 1..Len(extractLog) :
          /\ extractLog[i].result = None
          /\ extractLog[j].result # None
    /\ Len(sent) = 1
    /\ new_posted_items \ posted_items = {sent[1].id}
    /\ Len(free_items) = 1

\* ------------------------------------------- one sweep with failing units
\* a detail page whose first FREE! marker cannot be inspected and whose
\* second one stands in the subscription-loyalty container
PageStaleThenLoyal ==
    DetailPage(TRUE, <<Marker(TRUE, TRUE), Marker(TRUE, FALSE)>>, FALSE, <<TxtElk>>,
               FALSE, << >>)

IsolationPages == StorePages \cup {PageStaleThenLoyal}

\* the listing address that fails to load during this sweep
DownListing == priority_urls[7]

\* what the first priority page can show during this sweep
FirstListingPages ==
    {ListingPage(FALSE, << >>)} \cup {ListingPage(TRUE, <<m>>) : m \in ListingMarkers}

\* a run that is about to start its sweep over the priority addresses and
\* the root page; ut.first is what the first priority page shows, ut.listing
\* what the root page shows; "Elk-False" was posted by an earlier run
InitIsolation ==
    /\ ledgerFile = FileJson(<<ElkFalse>>)
    /\ runNo = 1
    /\ pc = "sweep"
    /\ driver = "open"
    /\ posted_items = LoadPostedItems(ledgerFile)
    /\ new_posted_items = LoadPostedItems(ledgerFile)
    /\ free_items = << >>
    /\ processed_urls = {}
    /\ urls_to_check = SweepList(<<Root>>)
    /\ idx = 1
    /\ item_urls_to_check = {}
    /\ sent = << >>
    /\ extractLog = << >>
    /\ saved = "no"
    /\ prevIds = {}
    /\ prevSaveOk = FALSE
    /\ sentBefore = {}
    /\ chainOk = TRUE
    /\ visited = << >>
    /\ calls = [load |-> 1, quit |-> 0, save |-> 0]
    /\ ledgerAtStart = ledgerFile
    /\ ut \in {[first |-> f, listing |-> l] :
                  f \in FirstListingPages, l \in ListingPagesAt(Root)}

\* the pages the listing addresses show during this sweep
IsolationListing(url) ==
    IF url = priority_urls[1] THEN {ut.first}
    ELSE IF url = Root THEN {ut.listing}
    ELSE IF url = DownListing THEN {ListingPage(FALSE, << >>)}
    ELSE ListingPagesAt(url)

\* lines 355-387 and 422-424 for the next listing address
CheckUnit ==
    /\ pc = "sweep"
    /\ idx <= Len(urls_to_check)
    /\ CheckUrlFrom(IsolationListing(urls_to_check[idx]))

\* lines 390-420 for the next collected address
ProcessIsolated == ProcessItemFrom(IsolationPages)

NextIsolation ==
    \/ CheckUnit
    \/ ProcessIsolated
    \/ QuitDriver

SpecIsolation == InitIsolation /\ [][NextIsolation]_vars

\* the position of a listing address in the sweep list
C13_Position(url) == CHOOSE i \in 1..Len(urls_to_check) : urls_to_check[i] = url

\* the listing page at url has been loaded and its markers were gone through
C13_Collected(url) ==
    \/ idx > C13_Position(url)
    \/ idx = C13_Position(url) /\ pc = "items"

\* the addresses behind the markers of a listing page that can be inspected
C13_Reachable(page) ==
    IF ~page.nav THEN {}
    ELSE UNION {FirstItemHref(page.markers[i].hrefs) :
                   i \in {j \in 1..Len(page.markers) : ~page.markers[j].raises}}

\* the addresses extract_item_details was called for in this run
C13_Attempted == {extractLog[i].url : i \in 1..Len(extractLog)}

\* C13: a marker that cannot be inspected, a detail page that fails and a
\* listing page that fails to load are each skipped alone: every other
\* marker of the page is still inspected, every other detail address of the
\* page is still classified, every later listing address is still loaded,
\* and every item classified before or after the failure is checked against
\* the ledger and, when new, notified.
C13_FailureIsolation ==
    /\ \A i \in 1..Len(extractLog) :
          LET e == extractLog[i]
          IN  /\ (e.page.nav /\ e.page.markers # << >>
                      /\ FirstValidName(e.page.headings) # None) => e.result # None
              /\ (e.result # None
                      /\ \E m \in 1..Len(e.page.markers) :
                            ~e.page.markers[m].stale /\ e.page.markers[m].loyal)
                    => e.result[1].is_eso_plus_free
              /\ e.result # None =>
                    \/ ItemId(e.result[1]) \in posted_items /\ SendsFor(e.url) = {}
                    \/ Cardinality(SendsFor(e.url)) = 1
    /\ C13_Collected(priority_urls[1]) =>
          C13_Reachable(ut.first) \subseteq item_urls_to_check \cup processed_urls
    /\ C13_Collected(Root) =>
          C13_Reachable(ut.listing) \subseteq item_urls_to_check \cup processed_urls
    /\ idx > C13_Position(priority_urls[1]) => C13_Reachable(ut.first) \subseteq C13_Attempted
    /\ idx > C13_Position(Root) => C13_Reachable(ut.listing) \subseteq C13_Attempted
    /\ visited = SubSeq(urls_to_check, 1, Len(visited))
    /\ Len(visited) = IF pc = "sweep" THEN idx - 1 ELSE IF pc = "items" THEN idx
                      ELSE Len(urls_to_check)

\* the sweep is over: the item found on the first page timed out, a later
\* listing page failed to load, the root page was still loaded, its first
\* marker could not be inspected, the item behind its second marker was
\* classified past a marker that raised, and notified
C13_Witness ==
    /\ pc = "save"
    /\ visited = urls_to_check
    /\ DownListing \in Range(visited)
    /\ C13_Position(DownListing) < C13_Position(Root)
    /\ Len(ut.listing.markers) = 2
    /\ ut.listing.markers[1].raises
    /\ Len(extractLog) = 2
    /\ extractLog[1].page = PageTimeout
    /\ extractLog[1].url \in C13_Reachable(ut.first)
    /\ extractLog[2].page = PageStaleThenLoyal
    /\ extractLog[2].url \in C13_Reachable(ut.listing)
    /\ extractLog[2].result # None
    /\ extractLog[2].result[1].is_eso_plus_free
    /\ Cardinality(SendsFor(extractLog[2].url)) = 1

\* ------------------------------------------------- discovery on its own
\* a run that has loaded its ledger and is about to discover the listing
\* pages; ut.root is the root page as discovery finds it, ut.all_urls what
\* get_all_crownstore_urls returned
InitDiscovery ==
    /\ ledgerFile = FileAbsent
    /\ runNo = 1
    /\ pc = "discover"
    /\ driver = "open"
    /\ posted_items = {}
    /\ new_posted_items = {}
    /\ free_items = << >>
    /\ processed_urls = {}
    /\ urls_to_check = << >>
    /\ idx = 0
    /\ item_urls_to_check = {}
    /\ sent = << >>
    /\ extractLog = << >>
    /\ saved = "no"
    /\ prevIds = {}
    /\ prevSaveOk = FALSE
    /\ sentBefore = {}
    /\ chainOk = TRUE
    /\ visited = << >>
    /\ calls = [load |-> 1, quit |-> 0, save |-> 0]
    /\ ledgerAtStart = ledgerFile
    /\ ut \in {[root |-> page, all_urls |-> None] : page \in RootPages}

\* lines 334-353 on that root page
DiscoverUnit ==
    \E all_urls \in GetAllCrownstoreUrls(ut.root) :
        /\ DiscoverStep(all_urls)
        /\ ut' = [ut EXCEPT !.all_urls = Some(all_urls)]

NextDiscovery == DiscoverUnit

SpecDiscovery == InitDiscovery /\ [][NextDiscovery]_vars

\* C14: when loading the root page or enumerating its links raises,
\* get_all_crownstore_urls returns exactly [root address], and the run goes
\* on: the session stays open and the sweep starts at the first address of
\* a sweep list that ends with the root address.
C14_DiscoveryFallback ==
    (ut.all_urls # None /\ ut.root.raises) =>
        /\ ut.all_urls = Some(<<Root>>)
        /\ pc = "sweep"
        /\ driver = "open"
        /\ idx = 1
        /\ urls_to_check = priority_urls \o <<Root>>

\* discovery raised on a root page that carries store links, and the sweep
\* is about to start
C14_Witness ==
    /\ ut.root.raises
    /\ OtherCategory \in ut.root.links
    /\ ut.root.stale = {}
    /\ ut.all_urls = Some(<<Root>>)
    /\ pc = "sweep"
    /\ idx = 1

\* C15: the sweep list starts with the priority addresses in their fixed
\* order, continues with exactly the discovered addresses that are not
\* priority addresses, holds no address twice and holds the root address,
\* whatever links the root page carries and also when discovery raised.
C15_SweepListOrder ==
    ut.all_urls # None =>
        /\ Len(urls_to_check) >= Len(priority_urls)
        /\ SubSeq(urls_to_check, 1, Len(priority_urls)) = priority_urls
        /\ {urls_to_check[i] : i \in (Len(priority_urls) + 1)..Len(urls_to_check)}
               = Range(ut.all_urls[1]) \ Range(priority_urls)
        /\ \A i, j \in 1..Len(urls_to_check) : urls_to_check[i] = urls_to_check[j] => i = j
        /\ Root \in Range(urls_to_check)
        /\ ~ut.root.raises =>
              Range(ut.all_urls[1]) =
                  {href \in ut.root.links \ ut.root.stale : StartsWith(href, Root)} \cup {Root}

\* discovery returned a priority address, another category and the root
\* address from a page that also links outside the store
C15_Witness ==
    /\ ut.all_urls # None
    /\ ~ut.root.raises
    /\ AccountPage \in ut.root.links \ ut.root.stale
    /\ Range(ut.all_urls[1]) = {priority_urls[1], OtherCategory, Root}
    /\ urls_to_check[Len(urls_to_check)] = OtherCategory
    /\ Len(urls_to_check) = Len(priority_urls) + 2

\* ------------------------------------------------- the ledger on its own
\* the identities a ledger can hold
LedgerIds ==
    {ElkFalse,
     ItemId([name |-> TxtElk, is_eso_plus_free |-> TRUE]),
     ItemId([name |-> TxtElkTrue, is_eso_plus_free |-> FALSE])}

\* the ledger files a run can find
LedgerFiles ==
    {FileAbsent, FileCorrupt}
    \cup UNION {{FileJson(order) : order \in Orders(posted)} : posted \in SUBSET LedgerIds}

\* a run that found nothing new has released its session and is about to
\* save the set it loaded; ut.posted is the set handed to save_posted_items
InitLedger ==
    /\ ledgerFile \in LedgerFiles
    /\ runNo = 1
    /\ pc = "save"
    /\ driver = "quit"
    /\ posted_items = LoadPostedItems(ledgerFile)
    /\ new_posted_items = LoadPostedItems(ledgerFile)
    /\ free_items = << >>
    /\ processed_urls = {}
    /\ urls_to_check = SweepList(<<Root>>)
    /\ idx = Len(urls_to_check) + 1
    /\ item_urls_to_check = {}
    /\ sent = << >>
    /\ extractLog = << >>
    /\ saved = "no"
    /\ prevIds = {}
    /\ prevSaveOk = FALSE
    /\ sentBefore = {}
    /\ chainOk = TRUE
    /\ visited = urls_to_check
    /\ calls = [load |-> 1, quit |-> 1, save |-> 0]
    /\ ledgerAtStart = ledgerFile
    /\ ut = [posted |-> LoadPostedItems(ledgerFile)]

\* save_posted_items at the end of that run, load_posted_items at the start
\* of the next one
NextLedger ==
    \/ SaveLedger
    \/ ReturnToMain
    \/ SetupDriver
    \/ LoadLedger

SpecLedger == InitLedger /\ [][NextLedger]_vars

\* C16: the set load_posted_items returns from the file a successful
\* save_posted_items wrote equals the set that was saved, in whatever order
\* the entries were written; from an absent or unparsable file it returns
\* the empty set, and the run goes on.
C16_LedgerRoundTrip ==
    (runNo = 2 /\ pc = "discover") =>
        /\ prevSaveOk => (posted_items = ut.posted /\ new_posted_items = ut.posted)
        /\ ledgerFile.kind \in {"absent", "corrupt"} =>
               (posted_items = {} /\ new_posted_items = {})

\* three identities were saved, and loaded again by the next run from a
\* file that lists them in descending order of length
C16_Witness ==
    /\ runNo = 2
    /\ pc = "discover"
    /\ prevSaveOk
    /\ Cardinality(ut.posted) = 3
    /\ ledgerFile.kind = "json"
    /\ Len(ledgerFile.data) = 3
    /\ Len(ledgerFile.data[1]) > Len(ledgerFile.data[2])
    /\ Len(ledgerFile.data[2]) > Len(ledgerFile.data[3])
    /\ posted_items = ut.posted

\* --------------------------------------- a failed item and the next run
\* the detail pages on which classification fails: the navigation times
\* out, or no name is found and the class selector raises
FailingPages == {PageTimeout, PageNoName}

\* the first run has reached the root listing page, which led to one item
\* address whose detail page, ut.page, fails to classify
InitRecovery ==
    /\ ledgerFile \in InitialLedgers
    /\ runNo = 1
    /\ pc = "items"
    /\ driver = "open"
    /\ posted_items = LoadPostedItems(ledgerFile)
    /\ new_posted_items = LoadPostedItems(ledgerFile)
    /\ free_items = << >>
    /\ processed_urls = {}
    /\ urls_to_check = SweepList(<<Root>>)
    /\ idx = Len(urls_to_check)
    /\ item_urls_to_check = {UnitItemUrl}
    /\ sent = << >>
    /\ extractLog = << >>
    /\ saved = "no"
    /\ prevIds = {}
    /\ prevSaveOk = FALSE
    /\ sentBefore = {}
    /\ chainOk = TRUE
    /\ visited = urls_to_check
    /\ calls = [load |-> 1, quit |-> 0, save |-> 0]
    /\ ledgerAtStart = ledgerFile
    /\ ut \in {[page |-> p] : p \in FailingPages}

\* lines 390-420: in the first run the address shows ut.page, in the next
\* run the storefront shows what it shows
ProcessRecovering ==
    \/ runNo = 1 /\ ProcessItemFrom({ut.page})
    \/ runNo > 1 /\ ProcessItemFrom(StorePages)

NextRecovery ==
    \/ ProcessRecovering
    \/ QuitDriver
    \/ SaveLedger
    \/ ReturnToMain
    \/ SetupDriver
    \/ LoadLedger
    \/ Discover
    \/ CheckUrl

SpecRecovery == InitRecovery /\ [][NextRecovery]_vars

\* C18: an address whose detail page failed to classify is not classified
\* again in that run, and the run adds no identity for it, neither in memory
\* nor in the file it saves; in the next run, when the item at that address
\* classifies, its notification is dispatched once, unless its identity is
\* in the ledger that run loaded.
C18_NoRetryThenRecovery ==
    /\ \A i, j \in 1..Len(extractLog) : extractLog[i].url = extractLog[j].url => i = j
    /\ runNo = 1 =>
          /\ \A i \in 1..Len(extractLog) : extractLog[i].result = None
          /\ new_posted_items = posted_items
          /\ sent = << >>
          /\ saved = "ok" => LoadPostedItems(ledgerFile) = LoadPostedItems(ledgerAtStart)
    /\ runNo > 1 =>
          \A i \in 1..Len(extractLog) :
              LET e == extractLog[i]
              IN  (e.url = UnitItemUrl /\ e.result # None) =>
                      IF ItemId(e.result[1]) \in posted_items
                      THEN SendsFor(e.url) = {}
                      ELSE /\ Cardinality(SendsFor(e.url)) = 1
                           /\ ItemId(e.result[1]) \in new_posted_items

\* the address timed out in the first run, which saved a ledger without it;
\* the second run classified the item there and dispatched its notification
C18_Witness ==
    /\ runNo = 2
    /\ ut.page = PageTimeout
    /\ prevSaveOk
    /\ pc = "return"
    /\ saved = "ok"
    /\ \E i \in 1..Len(extractLog) :
          /\ extractLog[i].url = UnitItemUrl
          /\ extractLog[i].result # None
          /\ ItemId(extractLog[i].result[1]) \notin posted_items
          /\ Cardinality(SendsFor(UnitItemUrl)) = 1
          /\ ItemId(extractLog[i].result[1]) \in LoadPostedItems(ledgerFile)
====
